---- MODULE Spec2Model ----
(***************************************************************************)
(* Model of the RAG session of Sistema-RAG-Openai: the RAGSystem facade of *)
(* the upload app (src/app_new.py) and of the Drive app                    *)
(* (src/app_gdrive.py), together with the Streamlit handlers of main()     *)
(* that drive it.  One session of one of the two apps is modelled; `app`   *)
(* says which.  The persisted snapshot (`disk`) outlives the session.      *)
(***************************************************************************)
EXTENDS Integers, Sequences, FiniteSets, TLC

VARIABLES app, vectorstore, qa_chain, memory, messages, disk, nextId,
          op, notice

vars == <<app, vectorstore, qa_chain, memory, messages, disk, nextId,
          op, notice>>

(* ------------------------------ bounds --------------------------------- *)
MaxBatch == 2
MaxEntries == 2
MaxMessages == 2

(* --------------------------- program constants ------------------------- *)
K == 4

(* Python's None / an object reference, as a sequence of length 0 / 1.     *)
None == <<>>
Some(x) == <<x>>
Val(o) == o[1]

(* The upload app (app_new.py) and the Drive app (app_gdrive.py).           *)
Apps == {"new", "gdrive"}

(* Two of the models of the selectbox, and the slider's default            *)
(* temperature, in tenths.                                                 *)
Models == {"gpt-4o-mini", "gpt-4o"}

Temperatures == {3}

(* What the user types into the chat input (never empty).                  *)
Questions == {"Q1"}

(* The files a user can hand to the loader.  `pages` lists, per page, the  *)
(* number of chunks the splitter cuts from it (no page at all: a PDF the   *)
(* loader returns no document for); `ok` is FALSE for bytes that are not a *)
(* well-formed PDF.                                                        *)
Files ==
    { [name |-> "a.pdf",     pages |-> <<1>>,    ok |-> TRUE],
      [name |-> "empty.pdf", pages |-> <<>>,     ok |-> TRUE],
      [name |-> "bad.pdf",   pages |-> <<>>,     ok |-> FALSE] }

Batches == UNION { [1..n -> Files] : n \in 1..MaxBatch }

Listings == UNION { [1..n -> Files] : n \in 0..MaxBatch }

(* What the remote calls of one query can do: the embedding call or the    *)
(* completion call raises, or the completion returns a text, maybe empty.  *)
LLMOutcomes ==
    { [raised |-> TRUE,  text |-> ""],
      [raised |-> FALSE, text |-> "A"],
      [raised |-> FALSE, text |-> ""] }

(* What the embedding call and the write of one ingestion can do.          *)
IngestOk == [embedOk |-> TRUE, saveOk |-> TRUE]

IngestOutcomes ==
    { IngestOk,
      [embedOk |-> FALSE, saveOk |-> TRUE],
      [embedOk |-> TRUE,  saveOk |-> FALSE] }

(* What comes before the Drive loader: no folder id typed, no              *)
(* authenticated service, a failed listing, or a listing.                  *)
DriveOk == [folder |-> TRUE, service |-> TRUE, listOk |-> TRUE]

DriveOutcomes ==
    { [folder |-> FALSE, service |-> TRUE,  listOk |-> TRUE],
      [folder |-> TRUE,  service |-> FALSE, listOk |-> TRUE],
      [folder |-> TRUE,  service |-> TRUE,  listOk |-> FALSE],
      DriveOk }

(* ------------------------------ loader --------------------------------- *)
(* PyPDFLoader(path).load(): one Document per page, in page order, with    *)
(* the file name written into metadata['source'].                          *)
LoaderLoad(file) ==
    [i \in 1..Len(file.pages) |->
        [source |-> file.name, page |-> i - 1, chunks |-> file.pages[i]]]

RECURSIVE LoadFrom(_, _, _)
(* The for loop of load_documents from position i with `documents` built   *)
(* so far: a malformed file raises out of the loop and of the method.      *)
LoadFrom(files, i, documents) ==
    IF i > Len(files) THEN [raised |-> FALSE, documents |-> documents]
    ELSE IF ~files[i].ok THEN [raised |-> TRUE, documents |-> <<>>]
    ELSE LoadFrom(files, i + 1, documents \o LoaderLoad(files[i]))

load_documents(uploaded_files) == LoadFrom(uploaded_files, 1, <<>>)

(* load_documents_from_gdrive: no service, a failed listing, an empty      *)
(* listing and any exception inside the loop all return [], each under its *)
(* own message.                                                            *)
load_documents_from_gdrive(service, listOk, items) ==
    IF ~service THEN [documents |-> <<>>, notice |-> "error:service"]
    ELSE IF ~listOk THEN [documents |-> <<>>, notice |-> "error:drive"]
    ELSE IF Len(items) = 0
    THEN [documents |-> <<>>, notice |-> "warning:nofiles"]
    ELSE LET r == LoadFrom(items, 1, <<>>)
         IN  IF r.raised
             THEN [documents |-> <<>>, notice |-> "error:unexpected"]
             ELSE [documents |-> r.documents, notice |-> "none"]

(* ------------------------------ chunker -------------------------------- *)
RECURSIVE split_documents(_)
(* text_splitter.split_documents: the chunks of every page, in order, each *)
(* carrying its page's metadata.                                           *)
split_documents(documents) ==
    IF Len(documents) = 0 THEN <<>>
    ELSE LET d == Head(documents)
         IN  [c \in 1..d.chunks |-> [source |-> d.source, page |-> d.page]]
             \o split_documents(Tail(documents))

(* ---------------------------- vector index ----------------------------- *)
(* FAISS.from_documents(splits, embeddings): one entry per chunk under a   *)
(* fresh id (uuid4); `base` is the number of ids handed out so far.        *)
from_documents(splits, base) ==
    { [id |-> base + i, source |-> splits[i].source, page |-> splits[i].page]
        : i \in 1..Len(splits) }

(* A merge that keeps the target's entries alone.                          *)
merge_from_replace(self, target) == target

(* self.vectorstore.merge_from(new_vectorstore): adds the entries of the   *)
(* target to self, in place.                                               *)
merge_from(self, target) == self \cup target


(* self.vectorstore.save_local(path): the snapshot becomes a copy of the   *)
(* index; a failed write raises and leaves the snapshot as it was.         *)
save_local(index, dk, saveOk) == IF saveOk THEN Some(index) ELSE dk

(* The result of a create_vectorstore call that raised before touching     *)
(* anything, at the named stage.                                           *)
Raised(vs, dk, stage) ==
    [vectorstore |-> vs, disk |-> dk, raised |-> TRUE, stage |-> stage,
     chunks |-> 0, used |-> 0, inplace |-> FALSE, fresh |-> FALSE]

(* A create_vectorstore that adds the chunks one at a time, so that an     *)
(* embedding failure leaves the first chunk in the index.                  *)
create_vectorstore_new_partial(vs, dk, documents, base, embedOk, saveOk) ==
    LET splits == split_documents(documents)
        new    == from_documents(splits, base)
        first  == from_documents(SubSeq(splits, 1, 1), base)
        vs1    == IF vs = None THEN Some(new)
                  ELSE Some(merge_from(Val(vs), new))
    IN  IF Len(splits) = 0 THEN Raised(vs, dk, "index")
        ELSE IF ~embedOk
        THEN [vectorstore |-> IF vs = None THEN Some(first)
                              ELSE Some(merge_from(Val(vs), first)),
              disk |-> dk, raised |-> TRUE, stage |-> "embed",
              chunks |-> 0, used |-> 1, inplace |-> vs # None,
              fresh |-> vs = None]
        ELSE [vectorstore |-> vs1,
              disk        |-> save_local(Val(vs1), dk, saveOk),
              raised      |-> ~saveOk,
              stage       |-> IF saveOk THEN "none" ELSE "save",
              chunks      |-> Len(splits),
              used        |-> Len(splits),
              inplace     |-> vs # None,
              fresh       |-> vs = None]

(* A create_vectorstore whose index builder accepts an empty list of       *)
(* chunks and so stores and saves an index without entries.                *)
create_vectorstore_new_empty_index(vs, dk, documents, base, embedOk, saveOk) ==
    LET splits == split_documents(documents)
        new    == from_documents(splits, base)
        vs1    == IF vs = None THEN Some(new)
                  ELSE Some(merge_from(Val(vs), new))
    IN  IF ~embedOk THEN Raised(vs, dk, "embed")
        ELSE [vectorstore |-> vs1,
              disk        |-> save_local(Val(vs1), dk, saveOk),
              raised      |-> ~saveOk,
              stage       |-> IF saveOk THEN "none" ELSE "save",
              chunks      |-> Len(splits),
              used        |-> Len(splits),
              inplace     |-> vs # None,
              fresh       |-> vs = None]

(* RAGSystem.create_vectorstore of the upload app.  vs, dk: self.vectorstore *)
(* and the snapshot before the call; base: ids handed out so far; embedOk, *)
(* saveOk: whether the embedding call and the write succeed.  `inplace`    *)
(* says the existing index object was extended, `fresh` that               *)
(* self.vectorstore now names a new object.                                *)
create_vectorstore_new(vs, dk, documents, base, embedOk, saveOk) ==
    LET splits == split_documents(documents)
        new    == from_documents(splits, base)
        vs1    == IF vs = None THEN Some(new)
                  ELSE Some(merge_from(Val(vs), new))
    IN  IF Len(splits) = 0 THEN Raised(vs, dk, "index")
        ELSE IF ~embedOk THEN Raised(vs, dk, "embed")
        ELSE [vectorstore |-> vs1,
              disk        |-> save_local(Val(vs1), dk, saveOk),
              raised      |-> ~saveOk,
              stage       |-> IF saveOk THEN "none" ELSE "save",
              chunks      |-> Len(splits),
              used        |-> Len(splits),
              inplace     |-> vs # None,
              fresh       |-> vs = None]

(* RAGSystem.create_vectorstore of the Drive app.                          *)
create_vectorstore_gdrive(vs, dk, documents, base, embedOk, saveOk) ==
    LET splits == split_documents(documents)
        new    == from_documents(splits, base)
    IN  IF Len(documents) = 0
        THEN [vectorstore |-> vs, disk |-> dk, raised |-> FALSE,
              stage |-> "none", chunks |-> 0, used |-> 0,
              inplace |-> FALSE, fresh |-> FALSE]
        ELSE IF Len(splits) = 0 THEN Raised(vs, dk, "index")
        ELSE IF ~embedOk THEN Raised(vs, dk, "embed")
        ELSE [vectorstore |-> Some(new),
              disk        |-> save_local(new, dk, saveOk),
              raised      |-> ~saveOk,
              stage       |-> IF saveOk THEN "none" ELSE "save",
              chunks      |-> Len(splits),
              used        |-> Len(splits),
              inplace     |-> FALSE,
              fresh       |-> TRUE]

(* RAGSystem.load_vectorstore of the upload app: FAISS.load_local inside a *)
(* bare try/except; readOk: whether an existing snapshot can be read.      *)
load_vectorstore_new(vs, dk, readOk) ==
    IF dk = None \/ ~readOk
    THEN [ok |-> FALSE, vectorstore |-> vs]
    ELSE [ok |-> TRUE,  vectorstore |-> Some(Val(dk))]

(* RAGSystem.load_vectorstore of the Drive app: the directory test, then   *)
(* the same load.                                                          *)
load_vectorstore_gdrive(vs, dk, readOk) ==
    IF dk = None THEN [ok |-> FALSE, vectorstore |-> vs]
    ELSE IF ~readOk THEN [ok |-> FALSE, vectorstore |-> vs]
    ELSE [ok |-> TRUE, vectorstore |-> Some(Val(dk))]

(* A setup_qa_chain that builds the chain on the default model whatever    *)
(* model was chosen.                                                       *)
setup_qa_chain_default_model(vs, qa, mem, model_name, temperature) ==
    IF vs = None
    THEN [ok |-> FALSE, qa_chain |-> qa, memory |-> mem]
    ELSE [ok |-> TRUE,
          qa_chain |-> Some([model_name  |-> "gpt-4o-mini",
                             temperature |-> temperature,
                             retriever   |-> Val(vs),
                             bound       |-> TRUE]),
          memory |-> Some(<<>>)]

(* RAGSystem.setup_qa_chain (same in both apps): a fresh memory and a      *)
(* chain whose retriever is bound to the index object self.vectorstore     *)
(* names at that moment.  `retriever` is the content of that object and    *)
(* `bound` says it is still the object self.vectorstore names.             *)
setup_qa_chain(vs, qa, mem, model_name, temperature) ==
    IF vs = None
    THEN [ok |-> FALSE, qa_chain |-> qa, memory |-> mem]
    ELSE [ok |-> TRUE,
          qa_chain |-> Some([model_name  |-> model_name,
                             temperature |-> temperature,
                             retriever   |-> Val(vs),
                             bound       |-> TRUE]),
          memory |-> Some(<<>>)]

(* A chain whose retriever holds a copy of the index it was set up with,   *)
(* so that not even an in-place merge is seen by it.                       *)
Alias_copy(qa, r) ==
    IF qa = None THEN qa
    ELSE IF r.inplace \/ r.fresh
         THEN Some([Val(qa) EXCEPT !.bound = FALSE])
    ELSE qa

(* What a create_vectorstore call does to the chain's retriever: an        *)
(* in-place merge is seen through the shared object, a new object is not.  *)
Alias(qa, r) ==
    IF qa = None THEN qa
    ELSE IF r.inplace /\ Val(qa).bound
         THEN Some([Val(qa) EXCEPT !.retriever = Val(r.vectorstore)])
    ELSE IF r.fresh
         THEN Some([Val(qa) EXCEPT !.bound = FALSE])
    ELSE qa

(* ------------------------------- state --------------------------------- *)
(* RAGSystem.__init__ and the first run of main(): nothing in memory, no   *)
(* transcript, an empty storage directory.                                 *)
Init ==
    /\ app \in Apps
    /\ vectorstore = None
    /\ qa_chain = None
    /\ memory = None
    /\ messages = <<>>
    /\ disk = None
    /\ nextId = 0
    /\ op = "init"
    /\ notice = "none"

(* A Processar Documentos that starts a new memory, as initialization does. *)
ProcessDocumentsOn_new_memory(b, env) ==
    LET ld == load_documents(b)
        r  == create_vectorstore_new(vectorstore, disk, ld.documents,
                                     nextId, env.embedOk, env.saveOk)
    IN  /\ app = "new"
        /\ op' = "ingest"
        /\ memory' = IF memory = None THEN memory ELSE Some(<<>>)
        /\ UNCHANGED <<app, messages>>
        /\ IF ld.raised
           THEN /\ notice' = "exception:load"
                /\ UNCHANGED <<vectorstore, qa_chain, disk, nextId>>
           ELSE /\ nextId + r.used <= MaxEntries
                /\ vectorstore' = r.vectorstore
                /\ disk' = r.disk
                /\ nextId' = nextId + r.used
                /\ qa_chain' = Alias(qa_chain, r)
                /\ notice' = IF r.raised THEN "exception:" \o r.stage
                             ELSE "success"

(* "Processar Documentos" of the upload app on the files b, env being     *)
(* what the embedding call and the write do: load_documents, then          *)
(* create_vectorstore; an exception of either ends the run of the script.  *)
ProcessDocumentsOn(b, env) ==
    LET ld == load_documents(b)
        r  == create_vectorstore_new(vectorstore, disk, ld.documents,
                                     nextId, env.embedOk, env.saveOk)
    IN  /\ app = "new"
        /\ op' = "ingest"
        /\ UNCHANGED <<app, memory, messages>>
        /\ IF ld.raised
           THEN /\ notice' = "exception:load"
                /\ UNCHANGED <<vectorstore, qa_chain, disk, nextId>>
           ELSE /\ nextId + r.used <= MaxEntries
                /\ vectorstore' = r.vectorstore
                /\ disk' = r.disk
                /\ nextId' = nextId + r.used
                /\ qa_chain' = Alias(qa_chain, r)
                /\ notice' = IF r.raised THEN "exception:" \o r.stage
                             ELSE "success"

ProcessDocuments ==
    \E b \in Batches :
      IF \/ load_documents(b).raised
         \/ Len(split_documents(load_documents(b).documents)) = 0
      THEN ProcessDocumentsOn(b, IngestOk)
      ELSE \E env \in IngestOutcomes : ProcessDocumentsOn(b, env)

(* "Processar Documentos do Drive" on the folder listing `items`: with a   *)
(* folder id and an authenticated service, load_documents_from_gdrive and, *)
(* if it returned documents, create_vectorstore.                           *)
ProcessDocumentsDriveOn(front, items, env) ==
    LET ld == load_documents_from_gdrive(front.service, front.listOk, items)
        r  == create_vectorstore_gdrive(vectorstore, disk, ld.documents,
                                        nextId, env.embedOk, env.saveOk)
    IN  /\ app = "gdrive"
        /\ op' = "ingest"
        /\ UNCHANGED <<app, memory, messages>>
        /\ IF ~front.folder
           THEN /\ notice' = "warning:folder"
                /\ UNCHANGED <<vectorstore, qa_chain, disk, nextId>>
           ELSE IF ~front.service \/ Len(ld.documents) = 0
           THEN /\ notice' = ld.notice
                /\ UNCHANGED <<vectorstore, qa_chain, disk, nextId>>
           ELSE /\ nextId + r.used <= MaxEntries
                /\ vectorstore' = r.vectorstore
                /\ disk' = r.disk
                /\ nextId' = nextId + r.used
                /\ qa_chain' = Alias(qa_chain, r)
                /\ notice' = IF r.raised THEN "exception:" \o r.stage
                             ELSE "success"

ProcessDocumentsDrive ==
    \/ \E front \in DriveOutcomes \ {DriveOk} :
         ProcessDocumentsDriveOn(front, <<>>, IngestOk)
    \/ \E items \in Listings :
         IF Len(split_documents(
                  load_documents_from_gdrive(TRUE, TRUE, items).documents)) = 0
         THEN ProcessDocumentsDriveOn(DriveOk, items, IngestOk)
         ELSE \E env \in IngestOutcomes :
                ProcessDocumentsDriveOn(DriveOk, items, env)

(* "Inicializar Sistema" (both apps) with the chosen model and             *)
(* temperature: load_vectorstore and, if it succeeded, setup_qa_chain.     *)
InitializeSystemOn(model_name, temperature, readOk) ==
    LET ld == IF app = "new"
              THEN load_vectorstore_new(vectorstore, disk, readOk)
              ELSE load_vectorstore_gdrive(vectorstore, disk, readOk)
        su == setup_qa_chain(ld.vectorstore, qa_chain, memory,
                             model_name, temperature)
    IN  /\ op' = "initialize"
        /\ vectorstore' = ld.vectorstore
        /\ UNCHANGED <<app, messages, disk, nextId>>
        /\ IF ld.ok
           THEN /\ qa_chain' = su.qa_chain
                /\ memory' = su.memory
                /\ notice' = IF su.ok THEN "success" ELSE "error:qa"
           ELSE /\ UNCHANGED <<qa_chain, memory>>
                /\ notice' = "warning:nobase"

InitializeSystem ==
    \E model_name \in Models, temperature \in Temperatures,
       readOk \in BOOLEAN :
      InitializeSystemOn(model_name, temperature, readOk)

(* Limpar Historico that empties the transcript and leaves rag.memory.     *)
ClearHistory_transcript_only ==
    /\ op' = "clear"
    /\ UNCHANGED <<app, vectorstore, qa_chain, disk, nextId, memory>>
    /\ IF memory # None
       THEN /\ messages' = <<>>
            /\ notice' = "success"
       ELSE /\ UNCHANGED messages
            /\ notice' = "none"

(* "Limpar Historico" (both apps): only when rag.memory is set, clear it   *)
(* and empty the transcript.                                               *)
ClearHistory ==
    /\ op' = "clear"
    /\ UNCHANGED <<app, vectorstore, qa_chain, disk, nextId>>
    /\ IF memory # None
       THEN /\ memory' = Some(<<>>)
            /\ messages' = <<>>
            /\ notice' = "success"
       ELSE /\ UNCHANGED <<memory, messages>>
            /\ notice' = "none"

(* Stand-in for the distance between the embedding of a question and the   *)
(* vector of an entry.                                                     *)
Dist(question, e) == IF question = "Q1" THEN e.id % 2 ELSE (e.id + 1) % 2

(* e is nearer to the question than f; ties go to the earlier entry.       *)
Nearer(question, e, f) ==
    \/ Dist(question, e) < Dist(question, f)
    \/ Dist(question, e) = Dist(question, f) /\ e.id < f.id

RECURSIVE Search(_, _, _)
(* The retriever's similarity search: up to k entries, nearest first.      *)
Search(index, question, k) ==
    IF k = 0 \/ index = {} THEN <<>>
    ELSE LET best == CHOOSE e \in index :
                        \A f \in index \ {e} : Nearer(question, e, f)
         IN  <<best>> \o Search(index \ {best}, question, k - 1)

(* A query whose chain writes the question into memory before the remote   *)
(* calls are made.                                                         *)
query_save_first(qa, mem, question, llm) ==
    IF qa = None
    THEN [raised |-> FALSE, answer |-> None, sources |-> <<>>,
          memory |-> mem]
    ELSE IF llm.raised
    THEN [raised |-> TRUE, answer |-> None, sources |-> <<>>,
          memory |-> Some(Append(Val(mem),
                          [type |-> "human", content |-> question]))]
    ELSE [raised  |-> FALSE,
          answer  |-> Some(llm.text),
          sources |-> Search(Val(qa).retriever, question, K),
          memory  |-> Some(Val(mem) \o
                           << [type |-> "human", content |-> question],
                              [type |-> "ai",    content |-> llm.text] >>)]

(* A query whose chain keeps only the latest exchange in memory.           *)
query_last_only(qa, mem, question, llm) ==
    IF qa = None
    THEN [raised |-> FALSE, answer |-> None, sources |-> <<>>,
          memory |-> mem]
    ELSE IF llm.raised
    THEN [raised |-> TRUE, answer |-> None, sources |-> <<>>,
          memory |-> mem]
    ELSE [raised  |-> FALSE,
          answer  |-> Some(llm.text),
          sources |-> Search(Val(qa).retriever, question, K),
          memory  |-> Some(<< [type |-> "human", content |-> question],
                              [type |-> "ai",    content |-> llm.text] >>)]

(* RAGSystem.query (both apps).  With a chain: retrieve, complete, and     *)
(* only then save the exchange into memory; llm: what the remote calls do. *)
query(qa, mem, question, llm) ==
    IF qa = None
    THEN [raised |-> FALSE, answer |-> None, sources |-> <<>>,
          memory |-> mem]
    ELSE IF llm.raised
    THEN [raised |-> TRUE, answer |-> None, sources |-> <<>>,
          memory |-> mem]
    ELSE [raised  |-> FALSE,
          answer  |-> Some(llm.text),
          sources |-> Search(Val(qa).retriever, question, K),
          memory  |-> Some(Val(mem) \o
                           << [type |-> "human", content |-> question],
                              [type |-> "ai",    content |-> llm.text] >>)]

(* A chat input that calls query without testing rag.qa_chain first.       *)
ChatInputOn_unguarded(prompt, llm) ==
    LET shown == Append(messages, [role |-> "user", content |-> prompt])
        r     == query(qa_chain, memory, prompt, llm)
    IN  /\ Len(messages) < MaxMessages
        /\ op' = "ask"
        /\ UNCHANGED <<app, vectorstore, qa_chain, disk, nextId>>
        /\ IF FALSE
           THEN /\ messages' = shown
                /\ UNCHANGED memory
                /\ notice' = "warning:init"
           ELSE IF r.raised
           THEN /\ messages' = shown
                /\ memory' = r.memory
                /\ notice' = "exception:query"
           ELSE IF r.answer # None /\ Val(r.answer) # ""
           THEN /\ messages' = Append(shown,
                                 [role    |-> "assistant",
                                  content |-> Val(r.answer),
                                  sources |-> r.sources])
                /\ memory' = r.memory
                /\ notice' = "answered"
           ELSE /\ messages' = shown
                /\ memory' = r.memory
                /\ notice' = "error:noanswer"

(* The chat input of main() (both apps) on the question `prompt`: the user *)
(* turn goes onto the transcript first; then, with a chain, query and, for *)
(* a non-empty answer, the assistant turn; without a chain, a warning.     *)
ChatInputOn(prompt, llm) ==
    LET shown == Append(messages, [role |-> "user", content |-> prompt])
        r     == query(qa_chain, memory, prompt, llm)
    IN  /\ Len(messages) < MaxMessages
        /\ op' = "ask"
        /\ UNCHANGED <<app, vectorstore, qa_chain, disk, nextId>>
        /\ IF qa_chain = None
           THEN /\ messages' = shown
                /\ UNCHANGED memory
                /\ notice' = "warning:init"
           ELSE IF r.raised
           THEN /\ messages' = shown
                /\ memory' = r.memory
                /\ notice' = "exception:query"
           ELSE IF r.answer # None /\ Val(r.answer) # ""
           THEN /\ messages' = Append(shown,
                                 [role    |-> "assistant",
                                  content |-> Val(r.answer),
                                  sources |-> r.sources])
                /\ memory' = r.memory
                /\ notice' = "answered"
           ELSE /\ messages' = shown
                /\ memory' = r.memory
                /\ notice' = "error:noanswer"

ChatInput ==
    \E prompt \in Questions, llm \in LLMOutcomes : ChatInputOn(prompt, llm)

(* A new browser session: main() constructs a new RAGSystem and a new      *)
(* transcript; the storage directory keeps what was saved.                 *)
NewSession ==
    /\ op # "init"
    /\ vectorstore' = None
    /\ qa_chain' = None
    /\ memory' = None
    /\ messages' = <<>>
    /\ op' = "init"
    /\ notice' = "none"
    /\ UNCHANGED <<app, disk, nextId>>

Next ==
    \/ ProcessDocuments
    \/ ProcessDocumentsDrive
    \/ InitializeSystem
    \/ ClearHistory
    \/ ChatInput
    \/ NewSession

Spec == Init /\ [][Next]_vars

(* The shape of the state: every reference is None or one object.          *)
TypeOK ==
    /\ app \in Apps
    /\ nextId \in 0..MaxEntries
    /\ Len(vectorstore) <= 1
    /\ Len(qa_chain) <= 1
    /\ Len(memory) <= 1
    /\ Len(disk) <= 1


(* ------------------------------ properties ----------------------------- *)
(* The session can answer: a chain has been set up.                        *)
Ready == qa_chain # None

(* The step is a completed ingestion handler that reported success.        *)
IngestSucceeded == op' = "ingest" /\ notice' = "success"

(* The entries of the index after the step that were made by the step.     *)
Added == { e \in Val(vectorstore') : e.id > nextId }

(* C1, as claimed: in both apps a successful ingestion into a session that *)
(* already holds an index keeps every entry the index held before.         *)
C1_MergesInBothApps ==
    [][(IngestSucceeded /\ vectorstore # None)
         => Val(vectorstore) \subseteq Val(vectorstore')]_vars

(* C1, amended: a successful ingestion into a session that already holds   *)
(* an index adds one entry per chunk of the batch; in the upload app the   *)
(* index afterwards is the union of what it held and the added entries, in *)
(* the Drive app it is the added entries alone.                            *)
C1_MergeUploadReplaceDrive ==
    [][(IngestSucceeded /\ vectorstore # None)
         => /\ nextId' > nextId
            /\ Cardinality(Added) = nextId' - nextId
            /\ IF app = "new"
               THEN Val(vectorstore') = Val(vectorstore) \cup Added
               ELSE Val(vectorstore') = Added]_vars

(* C1 witness: the upload app has just ingested into a ready session, so   *)
(* into an existing index, and the index holds an earlier and a new entry. *)
C1_Witness ==
    /\ app = "new"
    /\ op = "ingest"
    /\ notice = "success"
    /\ Ready
    /\ \E e, f \in Val(vectorstore) :
         e.id < f.id /\ e \in Val(disk) /\ f.id = nextId

(* C2, as claimed for the upload app: once a snapshot exists, no step      *)
(* removes an entry from it.                                               *)
C2_SnapshotNeverShrinks ==
    [][(app = "new" /\ disk # None)
         => (disk' # None /\ Val(disk) \subseteq Val(disk'))]_vars

(* C3: a chat input while no chain is set up ends in the "initialize       *)
(* first" warning, which no other outcome of a chat input shares, puts the *)
(* question on the transcript, and leaves the memory absent or empty;      *)
(* query itself returns no answer and no sources there.                    *)
C3_NotReadyIsReported ==
    [][(op' = "ask" /\ ~Ready)
         => /\ notice' = "warning:init"
            /\ messages' # messages
            /\ memory' = memory
            /\ (memory = None \/ Val(memory) = <<>>)
            /\ \A q \in Questions, llm \in LLMOutcomes :
                 /\ query(qa_chain, memory, q, llm).answer = None
                 /\ query(qa_chain, memory, q, llm).sources = <<>>]_vars

(* C3 witness: a question was asked of a session without a chain.          *)
C3_Witness ==
    /\ op = "ask"
    /\ notice = "warning:init"
    /\ ~Ready
    /\ Len(messages) > 0

(* C4, as claimed: ingestion into a ready session keeps the memory and the *)
(* chain and, when it succeeds, only adds entries to the index.            *)
C4_MemoryKeptIndexGrows ==
    [][(op' = "ingest" /\ Ready)
         => /\ memory' = memory
            /\ qa_chain' # None
            /\ (notice' = "success"
                  => Val(vectorstore) \subseteq Val(vectorstore'))]_vars

(* C4, amended: ingestion into a ready session keeps the memory, turn for  *)
(* turn, and the chain with its model; when it succeeds, the upload app's  *)
(* index grows and the chain searches the grown index, while the Drive     *)
(* app's index is replaced by the batch and the chain keeps searching the  *)
(* index it was set up with.                                               *)
C4_MemoryKept ==
    [][(op' = "ingest" /\ Ready)
         => /\ memory' = memory
            /\ messages' = messages
            /\ qa_chain' # None
            /\ Val(qa_chain').model_name = Val(qa_chain).model_name
            /\ Val(qa_chain').temperature = Val(qa_chain).temperature
            /\ (notice' = "success" =>
                  IF app = "new"
                  THEN /\ Val(vectorstore) \subseteq Val(vectorstore')
                       /\ Val(vectorstore') # Val(vectorstore)
                       /\ Val(qa_chain').retriever = Val(vectorstore')
                  ELSE /\ Val(vectorstore') = Added
                       /\ Val(qa_chain').retriever
                            = Val(qa_chain).retriever)]_vars

(* C4 witness: an ingestion has just succeeded in a session whose memory   *)
(* holds turns.                                                            *)
C4_Witness ==
    /\ op = "ingest"
    /\ notice = "success"
    /\ Ready
    /\ Len(Val(memory)) >= 2

(* C5, as claimed: on the transcript every user turn is followed by its    *)
(* assistant turn.                                                         *)
C5_NoOrphanTurn ==
    \A i \in 1..Len(messages) :
        messages[i].role = "user"
          => (i < Len(messages) /\ messages[i + 1].role = "assistant")

(* C6: a chat input whose remote call raises leaves the memory as it was   *)
(* and puts no assistant turn on the transcript.                           *)
C6_FailedAskKeepsMemory ==
    [][(op' = "ask" /\ notice' = "exception:query")
         => /\ memory' = memory
            /\ Len(messages') = Len(messages) + 1
            /\ messages'[Len(messages')].role = "user"]_vars

(* C6 witness: a query has just raised in a session whose memory holds     *)
(* turns.                                                                  *)
C6_Witness ==
    /\ op = "ask"
    /\ notice = "exception:query"
    /\ Ready
    /\ Len(Val(memory)) >= 2

(* The step is a chat input whose query returned.                          *)
AskReturned == op' = "ask" /\ notice' \in {"answered", "error:noanswer"}

(* C7, as claimed: an ask that succeeds appends two turns to the memory,   *)
(* the second of which carries the answer and its sources.                 *)
C7_TurnCarriesSources ==
    [][(op' = "ask" /\ notice' = "answered")
         => /\ Len(Val(memory')) = Len(Val(memory)) + 2
            /\ SubSeq(Val(memory'), 1, Len(Val(memory))) = Val(memory)
            /\ "sources" \in DOMAIN Val(memory')[Len(Val(memory'))]]_vars

(* C7, amended: an ask whose query returns appends exactly two turns to    *)
(* the memory, the question and then the answer text, after the turns that *)
(* were there; the sources are not in the memory: they go, with a          *)
(* non-empty answer, onto the assistant turn of the transcript, and are    *)
(* what the chain's retriever found.                                       *)
C7_TwoTurnsAppended ==
    [][AskReturned
         => LET old  == Val(memory)
                new  == Val(memory')
                user == messages'[Len(messages) + 1]
            IN  /\ Len(new) = Len(old) + 2
                /\ SubSeq(new, 1, Len(old)) = old
                /\ new[Len(old) + 1] =
                     [type |-> "human", content |-> user.content]
                /\ new[Len(old) + 2].type = "ai"
                /\ DOMAIN new[Len(old) + 2] = {"type", "content"}
                /\ (notice' = "answered" =>
                      /\ Len(messages') = Len(messages) + 2
                      /\ messages'[Len(messages')] =
                           [role    |-> "assistant",
                            content |-> new[Len(old) + 2].content,
                            sources |-> Search(Val(qa_chain).retriever,
                                               user.content, K)])]_vars

(* C7 witness: an answer has just been given in a session whose memory     *)
(* already held an exchange.                                               *)
C7_Witness ==
    /\ op = "ask"
    /\ notice = "answered"
    /\ Len(Val(memory)) >= 4
    /\ Len(messages[Len(messages)].sources) > 0

(* C8: clearing the history of a ready session empties the memory and      *)
(* leaves the chain, the index and the snapshot as they were.              *)
C8_ClearResetsMemoryOnly ==
    [][(op' = "clear" /\ Ready)
         => /\ memory' = Some(<<>>)
            /\ qa_chain' = qa_chain
            /\ vectorstore' = vectorstore
            /\ disk' = disk]_vars

(* C8 witness: the history of a ready session has just been cleared.       *)
C8_Witness ==
    /\ op = "clear"
    /\ notice = "success"
    /\ Ready
    /\ memory = Some(<<>>)
    /\ vectorstore # None

(* The files of a batch that are well-formed and have text.                *)
GoodFiles(b) ==
    { i \in 1..Len(b) : b[i].ok /\ Len(split_documents(LoaderLoad(b[i]))) > 0 }

(* Some file of the batch is malformed.                                    *)
HasMalformed(b) == \E i \in 1..Len(b) : ~b[i].ok

(* After the step the index holds an entry made by the step from file f.   *)
IngestedFrom(f) ==
    /\ vectorstore' # None
    /\ \E e \in Val(vectorstore') : e.source = f.name /\ e.id > nextId

(* C9, as claimed: when a batch with a malformed file is processed and the *)
(* remote calls succeed, every well-formed file of the batch is ingested.  *)
C9_LoadErrorIsolated ==
    [][\A b \in Batches :
         /\ (ProcessDocumentsOn(b, IngestOk) /\ HasMalformed(b))
              => \A i \in GoodFiles(b) : IngestedFrom(b[i])
         /\ (ProcessDocumentsDriveOn(DriveOk, b, IngestOk) /\ HasMalformed(b))
              => \A i \in GoodFiles(b) : IngestedFrom(b[i])]_vars

(* C10: an ingestion whose embedding call raises leaves the index in       *)
(* memory and the snapshot as they were.                                   *)
C10_EmbedFailureChangesNothing ==
    [][(op' = "ingest" /\ notice' = "exception:embed")
         => /\ vectorstore' = vectorstore
            /\ disk' = disk
            /\ qa_chain' = qa_chain]_vars

(* C10 witness: the embedding call of an ingestion into an existing index  *)
(* has just raised.                                                        *)
C10_Witness ==
    /\ op = "ingest"
    /\ notice = "exception:embed"
    /\ vectorstore # None
    /\ disk # None


(* The step leaves the index, the snapshot, the chain and the memory as    *)
(* they were.                                                              *)
SessionUnchanged ==
    /\ vectorstore' = vectorstore
    /\ disk' = disk
    /\ qa_chain' = qa_chain
    /\ memory' = memory

(* The batches of well-formed files from which the upload app's loader     *)
(* returns no document.                                                    *)
EmptyBatches ==
    { b \in Batches :
        ~load_documents(b).raised /\ Len(load_documents(b).documents) = 0 }

(* The folder listings from which the Drive app's loader returns no        *)
(* document: an empty folder, files without pages, a loop that raised.     *)
EmptyListings ==
    { b \in Listings :
        Len(load_documents_from_gdrive(TRUE, TRUE, b).documents) = 0 }

(* C11: an ingestion whose loader returns no document (files without       *)
(* pages in the upload app; an empty folder, or a loop that raised, in the *)
(* Drive app) does not report success and leaves the index, the snapshot,  *)
(* the chain and the memory as they were: a step that reports success or   *)
(* changes one of them is no such ingestion.                               *)
C11_EmptyIngestionChangesNothing ==
    [][(op' = "ingest" /\ (notice' = "success" \/ ~SessionUnchanged))
         => IF app = "new"
            THEN \A b \in EmptyBatches, env \in IngestOutcomes :
                   ~ProcessDocumentsOn(b, env)
            ELSE \A b \in EmptyListings, env \in IngestOutcomes :
                   ~ProcessDocumentsDriveOn(DriveOk, b, env)]_vars

(* C11 witness: a ready session has just processed an empty folder, or     *)
(* files without pages.                                                    *)
C11_Witness ==
    /\ op = "ingest"
    /\ notice \in {"warning:nofiles", "exception:index"}
    /\ Ready
    /\ vectorstore # None
    /\ disk # None

(* C12: an initialization that reports success leaves the session ready:   *)
(* the index in memory is the one read from the snapshot, which the step   *)
(* leaves as it was; the memory is a new, empty one; and the chain is      *)
(* built on the model and the temperature chosen for this initialization   *)
(* and searches that index.                                                *)
C12_InitializeMakesReady ==
    [][(op' = "initialize" /\ notice' = "success")
         => /\ disk # None
            /\ disk' = disk
            /\ vectorstore' = Some(Val(disk))
            /\ memory' = Some(<<>>)
            /\ qa_chain' # None
            /\ Val(qa_chain').retriever = Val(disk)
            /\ Val(qa_chain').bound
            /\ \A m \in Models, t \in Temperatures, readOk \in BOOLEAN :
                 InitializeSystemOn(m, t, readOk)
                   => /\ Val(qa_chain').model_name = m
                      /\ Val(qa_chain').temperature = t]_vars

(* C12 witness: a session that had answered a question has just been       *)
(* initialized again, on the model that is not the default one.            *)
C12_Witness ==
    /\ op = "initialize"
    /\ notice = "success"
    /\ Ready
    /\ memory = Some(<<>>)
    /\ Val(qa_chain).model_name = "gpt-4o"
    /\ \E i \in 1..Len(messages) : messages[i].role = "assistant"

(* The chain's retriever searches the index object self.vectorstore names. *)
SearchesCurrentIndex ==
    /\ vectorstore # None
    /\ Val(qa_chain).bound
    /\ Val(qa_chain).retriever = Val(vectorstore)

(* C13, as claimed: in every ready state the chain searches the session's  *)
(* current index.                                                          *)
C13_AskSearchesCurrentIndex == Ready => SearchesCurrentIndex

(* C13, amended: an answer's sources are entries of the index the chain    *)
(* searches.  In the upload app that is the session's current index in     *)
(* every ready state, entries ingested since the initialization included.  *)
(* In the Drive app it is the current index after an initialization, but   *)
(* an ingestion into a ready session puts a new index in its place and     *)
(* the chain goes on searching the one it was set up with, which holds     *)
(* none of the new entries, until the session is initialized again.        *)
C13_CurrentInUploadStaleInDrive ==
    [][/\ (Ready' /\ app = "new") => SearchesCurrentIndex'
       /\ (Ready' /\ app = "gdrive")
            => /\ vectorstore' # None
               /\ (Val(qa_chain').bound
                     => Val(qa_chain').retriever = Val(vectorstore'))
       /\ (app = "gdrive" /\ Ready /\ IngestSucceeded)
            => /\ ~Val(qa_chain').bound
               /\ Val(qa_chain').retriever = Val(qa_chain).retriever
               /\ Val(qa_chain').retriever \cap Added = {}
       /\ (op' = "initialize" /\ notice' = "success")
            => SearchesCurrentIndex'
       /\ (op' = "ask" /\ notice' = "answered")
            => LET sources == messages'[Len(messages')].sources
               IN  \A i \in 1..Len(sources) :
                     sources[i] \in Val(qa_chain).retriever]_vars

(* C13 witness: the upload app has just answered from an entry that is not *)
(* in the snapshot, so from one ingested after the initialization (which   *)
(* reads the snapshot) by an ingestion whose save failed.                  *)
C13_Witness ==
    /\ app = "new"
    /\ op = "ask"
    /\ notice = "answered"
    /\ LET sources == messages[Len(messages)].sources
       IN  \E i \in 1..Len(sources) : sources[i] \notin Val(disk)

(* C14, as claimed: whenever the session holds an index, the snapshot       *)
(* exists and holds exactly the same entries.                              *)
C14_IndexEqualsSnapshot ==
    vectorstore # None => (disk # None /\ Val(vectorstore) = Val(disk))

(* C15, as claimed: whenever the memory is present, the transcript holds   *)
(* exactly the turns the memory holds: as many, in the same order, each    *)
(* user turn a human one and each assistant turn an ai one with the same   *)
(* text.                                                                   *)
C15_TranscriptMatchesMemory ==
    memory # None
      => /\ Len(messages) = Len(Val(memory))
         /\ \A i \in 1..Len(messages) :
              /\ messages[i].content = Val(memory)[i].content
              /\ (messages[i].role = "user") <=> (Val(memory)[i].type = "human")

====
